---- MODULE Spec2Model ----
(***************************************************************************)
(* Bootstrap of the Mixamo downloader GUI.                                 *)
(*                                                                         *)
(* Two entry-point scripts are modelled:                                   *)
(*   "main"      src/src/main.pyw      (SIGINT handler, no-op timer,       *)
(*                                      try/except around the loop and the *)
(*                                      cleanup, os._exit)                 *)
(*   "part_000"  src/unnamed/part_000  (plain bootstrap, sys.exit)         *)
(*                                                                         *)
(* pc is the line the main program executes next ("l20" = main.pyw line    *)
(* 20, "p11" = part_000 line 11); "exec"/"pexec" mean that the main thread *)
(* is inside the C++ event loop app.exec_().  hpc is the position inside   *)
(* signal_handler ("none" when it is not running).                         *)
(*                                                                         *)
(* Python signal semantics: a SIGINT only trips a flag (sigPending); the   *)
(* Python-level handler runs in the main thread before the next piece of   *)
(* Python code is executed.  While the main thread is inside app.exec_()   *)
(* no Python code runs unless a Qt callback written in Python is invoked   *)
(* (in main.pyw: the lambda connected to the 100 ms timer).                *)
(*                                                                         *)
(* Exceptions are modelled where the code provides for them (the try       *)
(* blocks of main.pyw); print() and the Qt constructors are total.  Event  *)
(* loop return codes are drawn from 0..MaxExitCode, inside the range in    *)
(* which the argument of os._exit / sys.exit is the process exit status.   *)
(***************************************************************************)
EXTENDS Integers, Sequences, FiniteSets, TLC

VARIABLES
    script,            \* which entry point runs
    argv,              \* number of extra command-line arguments (sys.argv[1:])
    pc,                \* next line of the main program
    hpc,               \* position inside signal_handler
    sigHandler,        \* Python-level disposition of SIGINT
    sigPending,        \* SIGINT tripped, Python handler not yet run
    sigints,           \* SIGINTs delivered so far
    installs,          \* signal.signal calls so far
    appExists,         \* QApplication constructed
    appArgs,           \* argv handed to QApplication
    quitOnLastClosed,  \* app.setQuitOnLastWindowClosed(True) in effect
    windowCreated,     \* md constructed
    shown,             \* md.show() done
    timerState,        \* "none", "created", "connected", "started"
    md,                \* what the cleanup block will find on md
    loopResult,        \* "none", "returned", "KeyboardInterrupt"
    loopCode,          \* the integer app.exec_() returned
    exit_code,         \* the script's exit_code variable
    cleanupEntered,    \* the cleanup try block has been entered
    cleanupRaised,     \* an exception was raised inside the cleanup block
    deleteLaterCalls,  \* calls of md.browser.deleteLater()
    exitVia,           \* how the process ended ("none" while it runs)
    exitStatus,        \* process exit status
    steps              \* bootstrap steps taken by the script, in order

vars == <<script, argv, pc, hpc, sigHandler, sigPending, sigints, installs,
          appExists, appArgs, quitOnLastClosed, windowCreated, shown,
          timerState, md, loopResult, loopCode, exit_code, cleanupEntered,
          cleanupRaised, deleteLaterCalls, exitVia, exitStatus, steps>>

inputVars == <<script, argv>>
sigVars == <<sigHandler, sigPending, sigints, installs>>
qtVars == <<appExists, appArgs, quitOnLastClosed, windowCreated, shown, timerState, md>>
loopVars == <<loopResult, loopCode, exit_code>>
cleanupVars == <<cleanupEntered, cleanupRaised, deleteLaterCalls>>
exitVars == <<exitVia, exitStatus>>

----------------------------------------------------------------------------
(* Bounds *)

MaxExitCode == 2
MaxArgs == 1
MaxSigints == 2

(* Program constants *)

HandlerExitStatus == 0
KeyboardInterruptExitCode == 0

----------------------------------------------------------------------------
Unset == 0 - 1

ExitCodes == 0..MaxExitCode

Argvs == 0..MaxArgs

\* What the cleanup block can find: hasattr(md, 'browser') is False, True or
\* raises; bool(md.browser) is True, False or raises; deleteLater() may raise.
MdStates == [attr : {"absent", "present", "raises"},
             truth : {"true", "false", "raises"},
             delRaises : BOOLEAN]

NoMd == [attr |-> "absent", truth |-> "false", delRaises |-> FALSE]

\* Exit status of an interpreter that dies of an uncaught KeyboardInterrupt.
UncaughtStatuses == {1, 130}

terminated == exitVia # "none"

\* The main program may execute its next line: the process runs, the handler
\* is not on the stack, and no tripped signal is waiting to be handled first.
MainRuns(s) == script = s /\ ~terminated /\ hpc = "none" /\ ~sigPending

Init ==
    /\ script \in {"main", "part_000"}
    /\ argv \in Argvs
    /\ pc = IF script = "main" THEN "l20" ELSE "p11"
    /\ hpc = "none"
    /\ sigHandler = "default_int_handler"
    /\ sigPending = FALSE
    /\ sigints = 0
    /\ installs = 0
    /\ appExists = FALSE
    /\ appArgs = Unset
    /\ quitOnLastClosed = FALSE
    /\ windowCreated = FALSE
    /\ shown = FALSE
    /\ timerState = "none"
    /\ md = NoMd
    /\ loopResult = "none"
    /\ loopCode = Unset
    /\ exit_code = Unset
    /\ cleanupEntered = FALSE
    /\ cleanupRaised = FALSE
    /\ deleteLaterCalls = 0
    /\ exitVia = "none"
    /\ exitStatus = Unset
    /\ steps = <<>>

----------------------------------------------------------------------------
(* Signals *)

\* A SIGINT reaches the process: the C-level handler trips the flag.
DeliverSigint ==
    /\ ~terminated
    /\ sigints < MaxSigints
    /\ sigints' = sigints + 1
    /\ sigPending' = TRUE
    /\ UNCHANGED <<inputVars, pc, hpc, sigHandler, installs, qtVars, loopVars,
                   cleanupVars, exitVars, steps>>

\* The interpreter runs Python code of the main thread (it is not blocked
\* inside the C++ event loop).
InPython == pc \notin {"exec", "pexec"} \/ hpc # "none"

\* The tripped signal is handled with signal_handler installed: the handler
\* is entered (also on top of a handler that is already running).
EnterHandler ==
    /\ ~terminated
    /\ sigPending
    /\ InPython
    /\ sigHandler = "signal_handler"
    /\ sigPending' = FALSE
    /\ hpc' = "l13"
    /\ UNCHANGED <<inputVars, pc, sigHandler, sigints, installs, qtVars,
                   loopVars, cleanupVars, exitVars, steps>>

\* The tripped signal is handled with Python's default handler: it raises
\* KeyboardInterrupt in the main program, where no try block is active
\* (part_000 has none; in main.pyw this happens only before line 20 ran).
DefaultKeyboardInterrupt ==
    /\ ~terminated
    /\ sigPending
    /\ InPython
    /\ sigHandler = "default_int_handler"
    /\ sigPending' = FALSE
    /\ exitVia' = "uncaught"
    /\ exitStatus' \in UncaughtStatuses
    /\ UNCHANGED <<inputVars, pc, hpc, sigHandler, sigints, installs, qtVars,
                   loopVars, cleanupVars, steps>>

\* signal_handler, line 13: print(...)
HandlerPrint ==
    /\ ~terminated
    /\ hpc = "l13"
    /\ ~sigPending
    /\ hpc' = "l15"
    /\ UNCHANGED <<inputVars, pc, sigVars, qtVars, loopVars, cleanupVars,
                   exitVars, steps>>

HandlerExit_Return ==
    /\ ~terminated
    /\ hpc = "l15"
    /\ ~sigPending
    /\ hpc' = "none"
    /\ UNCHANGED <<inputVars, pc, sigVars, qtVars, loopVars, cleanupVars,
                   exitVars, steps>>

\* signal_handler, line 15: os._exit(0)
HandlerExit ==
    /\ ~terminated
    /\ hpc = "l15"
    /\ ~sigPending
    /\ exitVia' = "signal_handler"
    /\ exitStatus' = HandlerExitStatus
    /\ UNCHANGED <<inputVars, pc, hpc, sigVars, qtVars, loopVars, cleanupVars,
                   steps>>

----------------------------------------------------------------------------
(* main.pyw: bootstrap, lines 20-35 *)

InstallHandler_Skip ==
    /\ MainRuns("main")
    /\ pc = "l20"
    /\ pc' = "l23"
    /\ steps' = Append(steps, "signal")
    /\ UNCHANGED <<inputVars, hpc, sigVars, qtVars, loopVars, cleanupVars,
                   exitVars>>

\* line 20: signal.signal(signal.SIGINT, signal_handler)
InstallHandler ==
    /\ MainRuns("main")
    /\ pc = "l20"
    /\ sigHandler' = "signal_handler"
    /\ installs' = installs + 1
    /\ pc' = "l23"
    /\ steps' = Append(steps, "signal")
    /\ UNCHANGED <<inputVars, hpc, sigPending, sigints, qtVars, loopVars,
                   cleanupVars, exitVars>>

\* line 23: QtCore.QCoreApplication.setAttribute(AA_ShareOpenGLContexts)
SetAttribute ==
    /\ MainRuns("main")
    /\ pc = "l23"
    /\ pc' = "l25"
    /\ steps' = Append(steps, "setAttribute")
    /\ UNCHANGED <<inputVars, hpc, sigVars, qtVars, loopVars, cleanupVars,
                   exitVars>>

CreateApp_ArgvBranch ==
    /\ MainRuns("main")
    /\ pc = "l25"
    /\ appExists' = TRUE
    /\ appArgs' = argv
    /\ pc' = IF argv = 0 THEN "l26" ELSE "l33"
    /\ steps' = Append(steps, "QApplication")
    /\ UNCHANGED <<inputVars, hpc, sigVars, quitOnLastClosed, windowCreated,
                   shown, timerState, md, loopVars, cleanupVars, exitVars>>

\* line 25: app = QtWidgets.QApplication(sys.argv)
CreateApp ==
    /\ MainRuns("main")
    /\ pc = "l25"
    /\ appExists' = TRUE
    /\ appArgs' = argv
    /\ pc' = "l26"
    /\ steps' = Append(steps, "QApplication")
    /\ UNCHANGED <<inputVars, hpc, sigVars, quitOnLastClosed, windowCreated,
                   shown, timerState, md, loopVars, cleanupVars, exitVars>>

\* line 26: app.setQuitOnLastWindowClosed(True)
SetQuitOnLastWindowClosed ==
    /\ MainRuns("main")
    /\ pc = "l26"
    /\ quitOnLastClosed' = TRUE
    /\ pc' = "l29"
    /\ steps' = Append(steps, "setQuitOnLastWindowClosed")
    /\ UNCHANGED <<inputVars, hpc, sigVars, appExists, appArgs, windowCreated,
                   shown, timerState, md, loopVars, cleanupVars, exitVars>>

\* line 29: md = MixamoDownloaderUI(); the ui module decides what
\* md.browser will be.
CreateWindow ==
    /\ MainRuns("main")
    /\ pc = "l29"
    /\ windowCreated' = TRUE
    /\ md' \in MdStates
    /\ pc' = "l30"
    /\ steps' = Append(steps, "MixamoDownloaderUI")
    /\ UNCHANGED <<inputVars, hpc, sigVars, appExists, appArgs,
                   quitOnLastClosed, shown, timerState, loopVars, cleanupVars,
                   exitVars>>

\* line 30: md.show()
ShowWindow ==
    /\ MainRuns("main")
    /\ pc = "l30"
    /\ shown' = TRUE
    /\ pc' = "l33"
    /\ steps' = Append(steps, "show")
    /\ UNCHANGED <<inputVars, hpc, sigVars, appExists, appArgs,
                   quitOnLastClosed, windowCreated, timerState, md, loopVars,
                   cleanupVars, exitVars>>

\* line 33: timer = QtCore.QTimer()
CreateTimer ==
    /\ MainRuns("main")
    /\ pc = "l33"
    /\ timerState' = "created"
    /\ pc' = "l34"
    /\ UNCHANGED <<inputVars, hpc, sigVars, appExists, appArgs,
                   quitOnLastClosed, windowCreated, shown, md, loopVars,
                   cleanupVars, exitVars, steps>>

\* line 34: timer.timeout.connect(lambda: None)
ConnectTimer ==
    /\ MainRuns("main")
    /\ pc = "l34"
    /\ timerState' = "connected"
    /\ pc' = "l35"
    /\ UNCHANGED <<inputVars, hpc, sigVars, appExists, appArgs,
                   quitOnLastClosed, windowCreated, shown, md, loopVars,
                   cleanupVars, exitVars, steps>>

\* line 35: timer.start(100)
StartTimer ==
    /\ MainRuns("main")
    /\ pc = "l35"
    /\ timerState' = "started"
    /\ pc' = "l39"
    /\ steps' = Append(steps, "timer")
    /\ UNCHANGED <<inputVars, hpc, sigVars, appExists, appArgs,
                   quitOnLastClosed, windowCreated, shown, md, loopVars,
                   cleanupVars, exitVars>>

----------------------------------------------------------------------------
(* main.pyw: the event loop, lines 38-42 *)

\* line 39: app.exec_() is entered; the main thread is now in C++.
EnterLoop ==
    /\ MainRuns("main")
    /\ pc = "l39"
    /\ pc' = "exec"
    /\ steps' = Append(steps, "exec_")
    /\ UNCHANGED <<inputVars, hpc, sigVars, qtVars, loopVars, cleanupVars,
                   exitVars>>

TimerTick_NoPython ==
    /\ script = "main"
    /\ ~terminated
    /\ pc = "exec"
    /\ hpc = "none"
    /\ timerState = "started"
    /\ UNCHANGED vars

\* lines 33-35: the timer times out inside the event loop and calls the
\* connected lambda, so the interpreter runs and a tripped SIGINT is handled.
TimerTick ==
    /\ script = "main"
    /\ ~terminated
    /\ pc = "exec"
    /\ hpc = "none"
    /\ timerState = "started"
    /\ IF sigPending /\ sigHandler = "signal_handler"
       THEN /\ sigPending' = FALSE
            /\ hpc' = "l13"
            /\ UNCHANGED <<inputVars, pc, sigHandler, sigints, installs, qtVars,
                           loopVars, cleanupVars, exitVars, steps>>
       ELSE UNCHANGED vars

\* line 39: app.exec_() returns c (the last window was closed, or the ui
\* asked the application to exit with c).
LoopReturn(c) ==
    /\ script = "main"
    /\ ~terminated
    /\ pc = "exec"
    /\ hpc = "none"
    /\ loopResult' = "returned"
    /\ loopCode' = c
    /\ pc' = "l39s"
    /\ UNCHANGED <<inputVars, hpc, sigVars, qtVars, exit_code, cleanupVars,
                   exitVars, steps>>

\* line 39: exit_code = <the value app.exec_() returned>
AssignExitCode ==
    /\ MainRuns("main")
    /\ pc = "l39s"
    /\ exit_code' = loopCode
    /\ pc' = "l46"
    /\ UNCHANGED <<inputVars, hpc, sigVars, qtVars, loopResult, loopCode,
                   cleanupVars, exitVars, steps>>

\* lines 38-40: a KeyboardInterrupt propagates out of app.exec_() and is
\* caught by the except clause.
LoopRaise ==
    /\ script = "main"
    /\ ~terminated
    /\ pc = "exec"
    /\ hpc = "none"
    /\ loopResult' = "KeyboardInterrupt"
    /\ pc' = "l41"
    /\ UNCHANGED <<inputVars, hpc, sigVars, qtVars, loopCode, exit_code,
                   cleanupVars, exitVars, steps>>

\* line 41: print(...)
ExceptPrint ==
    /\ MainRuns("main")
    /\ pc = "l41"
    /\ pc' = "l42"
    /\ UNCHANGED <<inputVars, hpc, sigVars, qtVars, loopVars, cleanupVars,
                   exitVars, steps>>

\* line 42: exit_code = 0
ExceptAssign ==
    /\ MainRuns("main")
    /\ pc = "l42"
    /\ exit_code' = KeyboardInterruptExitCode
    /\ pc' = "l46"
    /\ UNCHANGED <<inputVars, hpc, sigVars, qtVars, loopResult, loopCode,
                   cleanupVars, exitVars, steps>>

----------------------------------------------------------------------------
(* main.pyw: cleanup and exit, lines 45-52 *)

\* lines 45-46: the try block is entered and hasattr(md, 'browser') is
\* evaluated.
CleanupHasattr ==
    /\ MainRuns("main")
    /\ pc = "l46"
    /\ cleanupEntered' = TRUE
    /\ steps' = Append(steps, "cleanup")
    /\ CASE md.attr = "absent" ->
              pc' = "l52" /\ UNCHANGED cleanupRaised
         [] md.attr = "present" ->
              pc' = "l46b" /\ UNCHANGED cleanupRaised
         [] md.attr = "raises" ->
              pc' = "l48" /\ cleanupRaised' = TRUE
    /\ UNCHANGED <<inputVars, hpc, sigVars, qtVars, loopVars, deleteLaterCalls,
                   exitVars>>

CleanupTruth_IgnoreTruth ==
    /\ MainRuns("main")
    /\ pc = "l46b"
    /\ CASE md.truth \in {"true", "false"} ->
              pc' = "l47" /\ UNCHANGED cleanupRaised
         [] md.truth = "raises" ->
              pc' = "l48" /\ cleanupRaised' = TRUE
    /\ UNCHANGED <<inputVars, hpc, sigVars, qtVars, loopVars, cleanupEntered,
                   deleteLaterCalls, exitVars, steps>>

\* line 46, second operand: md.browser is evaluated for truth.
CleanupTruth ==
    /\ MainRuns("main")
    /\ pc = "l46b"
    /\ CASE md.truth = "true" ->
              pc' = "l47" /\ UNCHANGED cleanupRaised
         [] md.truth = "false" ->
              pc' = "l52" /\ UNCHANGED cleanupRaised
         [] md.truth = "raises" ->
              pc' = "l48" /\ cleanupRaised' = TRUE
    /\ UNCHANGED <<inputVars, hpc, sigVars, qtVars, loopVars, cleanupEntered,
                   deleteLaterCalls, exitVars, steps>>

\* line 47: md.browser.deleteLater()
CleanupDeleteLater ==
    /\ MainRuns("main")
    /\ pc = "l47"
    /\ deleteLaterCalls' = deleteLaterCalls + 1
    /\ IF md.delRaises
       THEN pc' = "l48" /\ cleanupRaised' = TRUE
       ELSE pc' = "l52" /\ UNCHANGED cleanupRaised
    /\ UNCHANGED <<inputVars, hpc, sigVars, qtVars, loopVars, cleanupEntered,
                   exitVars, steps>>

CleanupExcept_Reraise ==
    /\ MainRuns("main")
    /\ pc = "l48"
    /\ exitVia' = "uncaught"
    /\ exitStatus' = 1
    /\ UNCHANGED <<inputVars, pc, hpc, sigVars, qtVars, loopVars, cleanupVars,
                   steps>>

\* lines 48-49: except: pass
CleanupExcept ==
    /\ MainRuns("main")
    /\ pc = "l48"
    /\ pc' = "l52"
    /\ UNCHANGED <<inputVars, hpc, sigVars, qtVars, loopVars, cleanupVars,
                   exitVars, steps>>

FinalExit_SysExit ==
    /\ MainRuns("main")
    /\ pc = "l52"
    /\ exitVia' = "sys.exit"
    /\ exitStatus' = exit_code
    /\ pc' = "done"
    /\ steps' = Append(steps, "exit")
    /\ UNCHANGED <<inputVars, hpc, sigVars, qtVars, loopVars, cleanupVars>>

FinalExit_Zero ==
    /\ MainRuns("main")
    /\ pc = "l52"
    /\ exitVia' = "os._exit"
    /\ exitStatus' = 0
    /\ pc' = "done"
    /\ steps' = Append(steps, "exit")
    /\ UNCHANGED <<inputVars, hpc, sigVars, qtVars, loopVars, cleanupVars>>

\* line 52: os._exit(exit_code)
FinalExit ==
    /\ MainRuns("main")
    /\ pc = "l52"
    /\ exitVia' = "os._exit"
    /\ exitStatus' = exit_code
    /\ pc' = "done"
    /\ steps' = Append(steps, "exit")
    /\ UNCHANGED <<inputVars, hpc, sigVars, qtVars, loopVars, cleanupVars>>

----------------------------------------------------------------------------
(* part_000: the plain bootstrap *)

\* line 11: QtCore.QCoreApplication.setAttribute(AA_ShareOpenGLContexts)
PartSetAttribute ==
    /\ MainRuns("part_000")
    /\ pc = "p11"
    /\ pc' = "p13"
    /\ steps' = Append(steps, "setAttribute")
    /\ UNCHANGED <<inputVars, hpc, sigVars, qtVars, loopVars, cleanupVars,
                   exitVars>>

\* line 13: app = QtWidgets.QApplication(sys.argv)
PartCreateApp ==
    /\ MainRuns("part_000")
    /\ pc = "p13"
    /\ appExists' = TRUE
    /\ appArgs' = argv
    /\ pc' = "p14"
    /\ steps' = Append(steps, "QApplication")
    /\ UNCHANGED <<inputVars, hpc, sigVars, quitOnLastClosed, windowCreated,
                   shown, timerState, md, loopVars, cleanupVars, exitVars>>

\* line 14: app.setQuitOnLastWindowClosed(True)
PartSetQuitOnLastWindowClosed ==
    /\ MainRuns("part_000")
    /\ pc = "p14"
    /\ quitOnLastClosed' = TRUE
    /\ pc' = "p17"
    /\ steps' = Append(steps, "setQuitOnLastWindowClosed")
    /\ UNCHANGED <<inputVars, hpc, sigVars, appExists, appArgs, windowCreated,
                   shown, timerState, md, loopVars, cleanupVars, exitVars>>

\* line 17: md = MixamoDownloaderUI()
PartCreateWindow ==
    /\ MainRuns("part_000")
    /\ pc = "p17"
    /\ windowCreated' = TRUE
    /\ md' \in MdStates
    /\ pc' = "p18"
    /\ steps' = Append(steps, "MixamoDownloaderUI")
    /\ UNCHANGED <<inputVars, hpc, sigVars, appExists, appArgs,
                   quitOnLastClosed, shown, timerState, loopVars, cleanupVars,
                   exitVars>>

\* line 18: md.show()
PartShowWindow ==
    /\ MainRuns("part_000")
    /\ pc = "p18"
    /\ shown' = TRUE
    /\ pc' = "p21"
    /\ steps' = Append(steps, "show")
    /\ UNCHANGED <<inputVars, hpc, sigVars, appExists, appArgs,
                   quitOnLastClosed, windowCreated, timerState, md, loopVars,
                   cleanupVars, exitVars>>

\* line 21: app.exec_() is entered.
PartEnterLoop ==
    /\ MainRuns("part_000")
    /\ pc = "p21"
    /\ pc' = "pexec"
    /\ steps' = Append(steps, "exec_")
    /\ UNCHANGED <<inputVars, hpc, sigVars, qtVars, loopVars, cleanupVars,
                   exitVars>>

\* line 21: app.exec_() returns c.
PartLoopReturn(c) ==
    /\ script = "part_000"
    /\ ~terminated
    /\ pc = "pexec"
    /\ loopResult' = "returned"
    /\ loopCode' = c
    /\ pc' = "p21s"
    /\ UNCHANGED <<inputVars, hpc, sigVars, qtVars, exit_code, cleanupVars,
                   exitVars, steps>>

\* line 21: exit_code = <the value app.exec_() returned>
PartAssignExitCode ==
    /\ MainRuns("part_000")
    /\ pc = "p21s"
    /\ exit_code' = loopCode
    /\ pc' = "p24"
    /\ UNCHANGED <<inputVars, hpc, sigVars, qtVars, loopResult, loopCode,
                   cleanupVars, exitVars, steps>>

\* line 24: del md
PartDelMd ==
    /\ MainRuns("part_000")
    /\ pc = "p24"
    /\ windowCreated' = FALSE
    /\ shown' = FALSE
    /\ md' = NoMd
    /\ pc' = "p25"
    /\ steps' = Append(steps, "cleanup")
    /\ UNCHANGED <<inputVars, hpc, sigVars, appExists, appArgs,
                   quitOnLastClosed, timerState, loopVars, cleanupVars,
                   exitVars>>

\* line 25: del app
PartDelApp ==
    /\ MainRuns("part_000")
    /\ pc = "p25"
    /\ appExists' = FALSE
    /\ pc' = "p28"
    /\ UNCHANGED <<inputVars, hpc, sigVars, appArgs, quitOnLastClosed,
                   windowCreated, shown, timerState, md, loopVars, cleanupVars,
                   exitVars, steps>>

\* line 28: sys.exit(exit_code)
PartSysExit ==
    /\ MainRuns("part_000")
    /\ pc = "p28"
    /\ exitVia' = "sys.exit"
    /\ exitStatus' = exit_code
    /\ pc' = "done"
    /\ steps' = Append(steps, "exit")
    /\ UNCHANGED <<inputVars, hpc, sigVars, qtVars, loopVars, cleanupVars>>

----------------------------------------------------------------------------
(* Specifications *)

\* The lines of main.pyw's main program, run by the interpreter.
MainStep ==
    \/ InstallHandler
    \/ SetAttribute
    \/ CreateApp
    \/ SetQuitOnLastWindowClosed
    \/ CreateWindow
    \/ ShowWindow
    \/ CreateTimer
    \/ ConnectTimer
    \/ StartTimer
    \/ EnterLoop
    \/ AssignExitCode
    \/ ExceptPrint
    \/ ExceptAssign
    \/ CleanupHasattr
    \/ CleanupTruth
    \/ CleanupDeleteLater
    \/ CleanupExcept
    \/ FinalExit

\* The lines of part_000's main program.
PartStep ==
    \/ PartSetAttribute
    \/ PartCreateApp
    \/ PartSetQuitOnLastWindowClosed
    \/ PartCreateWindow
    \/ PartShowWindow
    \/ PartEnterLoop
    \/ PartAssignExitCode
    \/ PartDelMd
    \/ PartDelApp
    \/ PartSysExit

\* The body of signal_handler.
HandlerStep ==
    \/ HandlerPrint
    \/ HandlerExit

\* What the environment does: signals, and the event loop ending.
EnvStep ==
    \/ DeliverSigint
    \/ \E c \in ExitCodes : LoopReturn(c)
    \/ LoopRaise
    \/ \E c \in ExitCodes : PartLoopReturn(c)

Next ==
    \/ MainStep
    \/ PartStep
    \/ EnterHandler
    \/ DefaultKeyboardInterrupt
    \/ HandlerStep
    \/ TimerTick
    \/ EnvStep

Spec == Init /\ [][Next]_vars

\* The interpreter keeps executing the program and the handler, handles a
\* tripped signal as soon as Python code runs, and the started timer keeps
\* timing out while the event loop runs.  Nothing forces the environment to
\* send signals or to end the event loop.
FairSpec ==
    /\ Spec
    /\ WF_vars(MainStep)
    /\ WF_vars(PartStep)
    /\ WF_vars(EnterHandler)
    /\ WF_vars(DefaultKeyboardInterrupt)
    /\ WF_vars(HandlerStep)
    /\ WF_vars(TimerTick)

----------------------------------------------------------------------------
(* The order of the bootstrap steps, as the two scripts are written *)

IsPrefix(s, t) == Len(s) <= Len(t) /\ \A i \in 1..Len(s) : s[i] = t[i]

\* main.pyw, lines 20-52
MainBootstrapSteps ==
    <<"signal", "setAttribute", "QApplication", "setQuitOnLastWindowClosed",
      "MixamoDownloaderUI", "show", "timer", "exec_", "cleanup", "exit">>

\* part_000, lines 11-28
PartBootstrapSteps ==
    <<"setAttribute", "QApplication", "setQuitOnLastWindowClosed",
      "MixamoDownloaderUI", "show", "exec_", "cleanup", "exit">>

\* The handler has started (it never returns, so this stays true).
handlerStarted == hpc # "none"

\* The exit status the event loop determined: the code it returned, or 0
\* when it was left by a KeyboardInterrupt.
LoopExitCode ==
    IF loopResult = "returned" THEN loopCode ELSE KeyboardInterruptExitCode

AfterLoop == script = "main" /\ loopResult # "none"

----------------------------------------------------------------------------
(* Properties *)

\* C1: once signal_handler has started, the main program takes no further
\* step (its position, its exit_code, its step list and the number of
\* deleteLater calls stay as they are), the handler stays on the stack, the
\* process can only end through the handler with status 0, and it does end
\* that way.
C1_ForcedExit ==
    /\ [][handlerStarted =>
            /\ pc' = pc
            /\ exit_code' = exit_code
            /\ steps' = steps
            /\ deleteLaterCalls' = deleteLaterCalls
            /\ hpc' # "none"
            /\ (terminated' => exitVia' = "signal_handler" /\ exitStatus' = 0)]_vars
    /\ (handlerStarted ~> (exitVia = "signal_handler" /\ exitStatus = 0))

\* The handler ended the process just before deleteLater() would have been
\* called, after the loop had returned a non-zero code.
C1_Witness ==
    /\ exitVia = "signal_handler"
    /\ exitStatus = 0
    /\ pc = "l47"
    /\ deleteLaterCalls = 0
    /\ exit_code > 0

\* C2: a SIGINT tripped while main.pyw is inside app.exec_() leads to the
\* forced exit, with no fairness assumed of anything the environment does
\* (only the timer keeps timing out and the interpreter keeps running).
C2_SigintInLoopTerminates ==
    (script = "main" /\ pc = "exec" /\ sigPending) ~> (exitVia = "signal_handler")

\* The process was ended by the handler while the main thread was still
\* inside the event loop.
C2_Witness ==
    /\ script = "main"
    /\ pc = "exec"
    /\ loopResult = "none"
    /\ exitVia = "signal_handler"

\* C3: after the event loop of main.pyw has ended, deleteLater() is called
\* at most once and the process always ends through os._exit (the final one
\* or the handler's).
C3_TerminatesAfterLoop ==
    /\ [](script = "main" => deleteLaterCalls <= 1)
    /\ (AfterLoop ~> (exitVia \in {"os._exit", "signal_handler"}))

\* The final os._exit was reached after the one cleanup call.
C3_Witness ==
    /\ script = "main"
    /\ exitVia = "os._exit"
    /\ loopResult = "returned"
    /\ deleteLaterCalls = 1
    /\ ~cleanupRaised

\* C4: when main.pyw ends without the handler ever having started, a loop
\* that returned c gives exit status c, and a loop left by KeyboardInterrupt
\* gives exit status 0 after the cleanup block was entered; both through the
\* final os._exit.
C4_ExitStatus ==
    (script = "main" /\ terminated /\ ~handlerStarted /\ loopResult # "none") =>
        /\ exitVia = "os._exit"
        /\ loopResult = "returned" => exitStatus = loopCode
        /\ loopResult = "KeyboardInterrupt" => exitStatus = 0 /\ cleanupEntered

\* The loop returned the largest code, the cleanup block raised, and the
\* process ended with that code.
C4_Witness ==
    /\ script = "main"
    /\ exitVia = "os._exit"
    /\ ~handlerStarted
    /\ loopResult = "returned"
    /\ loopCode = MaxExitCode
    /\ cleanupRaised
    /\ exitStatus = MaxExitCode

\* C5: main.pyw calls signal.signal at most once, as its first step, and
\* from then on (application created, window shown, loop running, cleanup in
\* progress) the SIGINT disposition is signal_handler.
C5_SingleHandler ==
    script = "main" =>
        /\ installs <= 1
        /\ Len(steps) > 0 => steps[1] = "signal" /\ installs = 1
        /\ (appExists \/ shown \/ pc = "exec" \/ loopResult # "none" \/ cleanupEntered)
              => sigHandler = "signal_handler" /\ installs = 1

\* Cleanup is in progress (the except clause is about to run) and a SIGINT
\* is waiting for the installed handler.
C5_Witness ==
    /\ script = "main"
    /\ pc = "l48"
    /\ sigPending
    /\ sigHandler = "signal_handler"

C7_CleanupSwallowed ==
    /\ [](script = "main" /\ cleanupRaised /\ terminated /\ ~handlerStarted =>
            exitVia = "os._exit" /\ exitStatus = LoopExitCode)
    /\ (cleanupRaised ~> (exitVia = "os._exit" \/ handlerStarted))

\* deleteLater() raised, and the process ended with the loop's non-zero code.
C7_Witness ==
    /\ cleanupRaised
    /\ md.delRaises
    /\ deleteLaterCalls = 1
    /\ exitVia = "os._exit"
    /\ exitStatus = exit_code
    /\ exit_code > 0

\* C8: every call of deleteLater() is the first one, is made by the main
\* program after the event loop has ended, with md.browser present and
\* truthy, and while no signal handler has started.
C8_DeleteLaterOnce ==
    [][deleteLaterCalls' # deleteLaterCalls =>
            /\ deleteLaterCalls = 0
            /\ deleteLaterCalls' = 1
            /\ loopResult # "none"
            /\ pc = "l47"
            /\ md.attr = "present"
            /\ md.truth = "true"
            /\ ~handlerStarted
            /\ ~handlerStarted']_vars

\* deleteLater() has just been called without raising.
C8_Witness ==
    /\ deleteLaterCalls = 1
    /\ pc = "l52"
    /\ ~md.delRaises
    /\ ~terminated

====
